---- MODULE Spec2Model ----
(***************************************************************************)
(* Model of the word-hunter library: the process-wide DICTIONARY guarded   *)
(* by an RwLock (src/src/lib.rs), load_dictionary, solve_words and the     *)
(* backtracking Solver (src/src/solver.rs).                                *)
(*                                                                         *)
(* Strings are sequences of byte values (ASCII codes), so that             *)
(* String::len, to_lowercase, lines and the byte-wise Ord of String are    *)
(* computed, not assumed.  The trie (trie_node.rs) is not part of the      *)
(* sources at hand; it is modelled from its documented contract as the set *)
(* of node paths (children) and the set of paths flagged is_word.          *)
(***************************************************************************)
EXTENDS Integers, Sequences, FiniteSets, TLC

VARIABLES
    dictionary,    \* the TrieNode inside the static DICTIONARY
    lock,          \* the RwLock around it: [writer, readers, poisoned]
    lpc,           \* position of the thread calling load_dictionary
    lpath,         \* the path that call was given
    spc,           \* position of the thread calling solve_words
    board,         \* the board that call was given
    word_trie,     \* Solver.word_trie
    snapshot,      \* history: the dictionary at the instant of the clone
    start,         \* find_all_words: number of (row, col) pairs already started
    stack,         \* the active visit calls, innermost last
    visited,       \* find_all_words: visited
    current_word,  \* find_all_words: current_word
    words,         \* find_all_words: words (the HashSet)
    found,         \* history: [word, path] for every words.insert
    result         \* the Vec returned by find_all_words

vars == <<dictionary, lock, lpc, lpath, spc, board, word_trie, snapshot,
          start, stack, visited, current_word, words, found, result>>

----------------------------------------------------------------------------
(* Bounds of the model. *)

\* Generated boards have at most this many cells.
MaxCells == 4

\* HashSet iteration is tried in every order for sets up to this size.
MaxShuffle == 3

----------------------------------------------------------------------------
(* Text: bytes and strings. *)

Lower == <<"a","b","c","d","e","f","g","h","i","j","k","l","m",
           "n","o","p","q","r","s","t","u","v","w","x","y","z">>

Upper == <<"A","B","C","D","E","F","G","H","I","J","K","L","M",
           "N","O","P","Q","R","S","T","U","V","W","X","Y","Z">>

\* The byte of a character; "LF" and "CR" name the two line-ending bytes.
Ord(c) ==
    IF c = "LF" THEN 10
    ELSE IF c = "CR" THEN 13
    ELSE IF \E i \in 1..26 : Lower[i] = c
         THEN 96 + (CHOOSE i \in 1..26 : Lower[i] = c)
         ELSE 64 + (CHOOSE i \in 1..26 : Upper[i] = c)

\* The string spelled by a tuple of characters.
S(cs) == [i \in 1..Len(cs) |-> Ord(cs[i])]

Range(f) == {f[i] : i \in DOMAIN f}

\* char::to_lowercase on ASCII.
lower_byte(b) == IF b >= 65 /\ b <= 90 THEN b + 32 ELSE b

\* str::to_lowercase.
to_lowercase(s) == [i \in 1..Len(s) |-> lower_byte(s[i])]

\* A line loses the "\r" that preceded its "\n".
strip_cr(line) ==
    IF Len(line) > 0 /\ line[Len(line)] = 13
    THEN SubSeq(line, 1, Len(line) - 1)
    ELSE line

RECURSIVE lines_from(_, _, _)
lines_from(s, i, cur) ==
    IF i > Len(s)
    THEN (IF cur = <<>> THEN <<>> ELSE <<cur>>)
    ELSE IF s[i] = 10
         THEN <<strip_cr(cur)>> \o lines_from(s, i + 1, <<>>)
         ELSE lines_from(s, i + 1, Append(cur, s[i]))

\* str::lines: split at "\n" or "\r\n"; the final line ending is optional.
lines(contents) == lines_from(contents, 1, <<>>)

----------------------------------------------------------------------------
(* TrieNode, a node being named by the path that leads to it. *)

\* TrieNode::new: the root alone, not a word.
TrieNode_new == [paths |-> {<<>>}, terminal |-> {}]

\* TrieNode::insert: creates the nodes along word, flags the last one.
insert(t, word) ==
    [paths    |-> t.paths \cup {SubSeq(word, 1, k) : k \in 0..Len(word)},
     terminal |-> t.terminal \cup {word}]

\* TrieNode::has_prefix: following s from the root never fails.
has_prefix(t, s) == s \in t.paths

\* TrieNode::is_word: the node reached by s exists and is flagged.
is_word(t, s) == s \in t.paths /\ s \in t.terminal

\* TrieNode::clone: an independent deep copy.
clone(t) == [paths |-> t.paths, terminal |-> t.terminal]

----------------------------------------------------------------------------
(* The inputs: files on disk and boards. *)

\* The file system: a path leads to no file, to a file that cannot be read
\* as UTF-8 text, or to a text.
Files ==
    [missing  |-> [kind |-> "missing", contents |-> <<>>],
     broken   |-> [kind |-> "unreadable", contents |-> <<>>],
     small    |-> [kind |-> "text",
                   contents |-> S(<<"A","b","LF", "A","B","A","LF", "LF",
                                    "b","a","b">>)],
     more     |-> [kind |-> "text",
                   contents |-> S(<<"a","b","a","b","CR","LF",
                                    "b","a","a","CR","LF",
                                    "a","b","c","LF">>)],
     scrabble |-> [kind |-> "text",
                   contents |-> S(<<"t","a","r","LF", "t","a","r","s","LF",
                                    "t","e","a","r","LF", "t","e","a","r","s","LF",
                                    "t","o","p","LF", "t","o","p","s","LF",
                                    "e","a","r","LF", "e","a","r","s","LF">>)]]

\* The paths load_dictionary is called with while a search may be running.
Paths == {"missing", "broken", "small", "more"}

\* A board from rows of cells, each cell a tuple of characters.
B(rows) == [r \in 1..Len(rows) |-> [c \in 1..Len(rows[r]) |-> S(rows[r][c])]]

\* The board of test::find_all_words.
TestBoard ==
    B(<< << <<"o">>, <<"e">>, <<"t">>, <<"w">> >>,
         << <<"i">>, <<"a">>, <<"r">>, <<"s">> >>,
         << <<"y">>, <<"t">>, <<"o">>, <<"p">> >>,
         << <<"r">>, <<"w">>, <<"b">>, <<"s">> >> >>)

\* Boards with cells of two characters, of three, and of none.
TokenBoards ==
    { B(<< << <<"a","b">>, <<"c">> >> >>),
      B(<< << <<"a","b","a">> >> >>),
      B(<< << <<"b">>, <<"a">> >>, << <<"a","b">>, <<>> >> >>),
      B(<< << <<"a">>, <<>>, <<"b">> >> >>) }

\* The board without rows, and the board whose only row has no cell.
EmptyBoard == <<>>

NoCellBoard == << <<>> >>

\* Every rectangular board of at most MaxCells cells over the cells a and b.
GeneratedBoards ==
    UNION { [1..r -> [1..c -> {S(<<"a">>), S(<<"b">>)}]] :
            <<r, c>> \in {rc \in (1..MaxCells) \X (1..MaxCells) :
                            rc[1] * rc[2] <= MaxCells} }

\* The boards searched while dictionaries are being loaded.
ConcurrentBoards ==
    { EmptyBoard,
      B(<< << <<"a","b">>, <<"c">> >> >>),
      B(<< << <<"a">>, <<"b">> >>, << <<"b">>, <<"a">> >> >>),
      B(<< << <<"b">>, <<"a">>, <<"a">> >> >>) }

\* The boards searched against a dictionary that is no longer changing.
SearchBoards ==
    GeneratedBoards \cup TokenBoards \cup {TestBoard, EmptyBoard, NoCellBoard}

----------------------------------------------------------------------------
(* load_dictionary. *)

RECURSIVE insert_all(_, _, _)
\* The loop over contents.lines(): each line is lowercased and inserted.
insert_all(t, ls, i) ==
    IF i > Len(ls) THEN t
    ELSE insert_all(insert(t, to_lowercase(ls[i])), ls, i + 1)

\* The dictionary after the loop of load_dictionary over a text.
load_text(t, contents) == insert_all(t, lines(contents), 1)

\* DICTIONARY.write() can return: nobody holds the lock.
write_available == ~lock.writer /\ lock.readers = 0

\* DICTIONARY.read() can return: no writer holds the lock.
read_available == ~lock.writer

\* DICTIONARY.write().unwrap() on a sound lock: the guard is held.
LoadAcquire(path) ==
    /\ lpc = "idle"
    /\ write_available
    /\ ~lock.poisoned
    /\ lock' = [lock EXCEPT !.writer = TRUE]
    /\ lpc' = "locked"
    /\ lpath' = path
    /\ UNCHANGED <<dictionary, spc, board, word_trie, snapshot, start, stack,
                   visited, current_word, words, found, result>>

\* DICTIONARY.write().unwrap() on a poisoned lock: unwrap panics.
LoadAcquirePoisoned(path) ==
    /\ lpc = "idle"
    /\ write_available
    /\ lock.poisoned
    /\ lpc' = "poison_panic"
    /\ lpath' = path
    /\ UNCHANGED <<dictionary, lock, spc, board, word_trie, snapshot, start,
                   stack, visited, current_word, words, found, result>>

\* No file at the path: return, the guard is dropped.
LoadMissing ==
    /\ lpc = "locked"
    /\ Files[lpath].kind = "missing"
    /\ lock' = [lock EXCEPT !.writer = FALSE]
    /\ lpc' = "returned"
    /\ UNCHANGED <<dictionary, lpath, spc, board, word_trie, snapshot, start,
                   stack, visited, current_word, words, found, result>>

\* A failing read that leaves the lock sound, as if the file were read
\* before the lock is taken.
LoadFatal_unpoisoned ==
    /\ lpc = "locked"
    /\ Files[lpath].kind = "unreadable"
    /\ lock' = [lock EXCEPT !.writer = FALSE]
    /\ lpc' = "read_panic"
    /\ UNCHANGED <<dictionary, lpath, spc, board, word_trie, snapshot, start,
                   stack, visited, current_word, words, found, result>>

\* read_to_string fails: expect panics, the guard is dropped while
\* unwinding, which poisons the lock.
LoadFatal ==
    /\ lpc = "locked"
    /\ Files[lpath].kind = "unreadable"
    /\ lock' = [lock EXCEPT !.writer = FALSE, !.poisoned = TRUE]
    /\ lpc' = "read_panic"
    /\ UNCHANGED <<dictionary, lpath, spc, board, word_trie, snapshot, start,
                   stack, visited, current_word, words, found, result>>

\* The file is read, every line inserted, the guard dropped.
LoadInsert ==
    /\ lpc = "locked"
    /\ Files[lpath].kind = "text"
    /\ dictionary' = load_text(dictionary, Files[lpath].contents)
    /\ lock' = [lock EXCEPT !.writer = FALSE]
    /\ lpc' = "returned"
    /\ UNCHANGED <<lpath, spc, board, word_trie, snapshot, start, stack,
                   visited, current_word, words, found, result>>

\* The caller of load_dictionary goes on, after a return or a panic.
LoadDone ==
    /\ lpc \in {"returned", "read_panic", "poison_panic"}
    /\ lpc' = "idle"
    /\ lpath' = "none"
    /\ UNCHANGED <<dictionary, lock, spc, board, word_trie, snapshot, start,
                   stack, visited, current_word, words, found, result>>

----------------------------------------------------------------------------
(* Solver. *)

DIRECTIONS ==
    << <<-1, -1>>, <<-1, 0>>, <<-1, 1>>,
       <<0, -1>>,             <<0, 1>>,
       <<1, -1>>,  <<1, 0>>,  <<1, 1>> >>

\* A solver that keeps querying the shared dictionary instead of its copy.
SolverTrie_shared == dictionary

\* self.word_trie, the trie the search queries.
SolverTrie == word_trie

\* Solver::in_bounds, on a board that has a first row.
in_bounds(b, row, col) == row < Len(b) /\ col < Len(b[1])

\* board[row][col] and visited[row][col], indexed from 0 as in the code.
cell(b, row, col) == b[row + 1][col + 1]

is_visited(v, row, col) == v[row + 1][col + 1]

\* visited[row][col] = flag
set_visited(v, row, col, flag) == [v EXCEPT ![row + 1][col + 1] = flag]

\* A return test that forgets the visited matrix.
must_return_unvisited(b, v, row, col) == ~in_bounds(b, row, col)

\* The test that makes visit return at once.
must_return(b, v, row, col) ==
    IF ~in_bounds(b, row, col) THEN TRUE ELSE is_visited(v, row, col)

\* A removal of the last byte alone, whatever the length of the token.
truncate_pop(s, new_len) == SubSeq(s, 1, Len(s) - 1)

\* String::truncate(new_len)
truncate(s, new_len) == SubSeq(s, 1, new_len)

\* A neighbour test that is off by one: row 0 and column 0 are refused.
may_recurse_positive(new_row, new_col) == new_row > 0 /\ new_col > 0

\* The test a neighbour passes before visit is called on it.
may_recurse(new_row, new_col) == new_row >= 0 /\ new_col >= 0

\* A filter that lets words of two bytes through.
long_enough_two(word) == Len(word) >= 2

\* The filter of the collected words.
long_enough(word) == Len(word) >= 3

\* usize::cmp and String::cmp (byte-wise lexicographic).
cmp_int(x, y) == IF x < y THEN "Less" ELSE IF x > y THEN "Greater" ELSE "Equal"

RECURSIVE cmp_str(_, _, _)
cmp_str(a, b, i) ==
    IF i > Len(a) \/ i > Len(b) THEN cmp_int(Len(a), Len(b))
    ELSE IF a[i] # b[i] THEN cmp_int(a[i], b[i])
    ELSE cmp_str(a, b, i + 1)

\* Ordering::then
then(first, second) == IF first = "Equal" THEN second ELSE first

\* A comparator that puts the shorter word first.
compare_ascending(a, b) == then(cmp_int(Len(a), Len(b)), cmp_str(a, b, 1))

\* The comparator handed to sort_by.
compare(a, b) == then(cmp_int(Len(b), Len(a)), cmp_str(a, b, 1))

\* One insertion of a stable sort: x goes behind everything not greater.
insert_sorted(sorted, x) ==
    LET k == Cardinality({i \in 1..Len(sorted) : compare(sorted[i], x) # "Greater"})
    IN  SubSeq(sorted, 1, k) \o <<x>> \o SubSeq(sorted, k + 1, Len(sorted))

RECURSIVE sort_by(_)
\* slice::sort_by with the comparator above (a stable sort).
sort_by(v) ==
    IF v = <<>> THEN <<>>
    ELSE insert_sorted(sort_by(SubSeq(v, 1, Len(v) - 1)), v[Len(v)])

RECURSIVE Perms(_)
Perms(set) ==
    IF set = {} THEN {<<>>}
    ELSE UNION {{<<x>> \o p : p \in Perms(set \ {x})} : x \in set}

RECURSIVE SetToSeq(_)
SetToSeq(set) ==
    IF set = {} THEN <<>>
    ELSE LET x == CHOOSE y \in set : TRUE IN <<x>> \o SetToSeq(set \ {x})

Reverse(v) == [i \in 1..Len(v) |-> v[Len(v) + 1 - i]]

\* HashSet::into_iter yields the words in an order of its own: every order
\* for a small set, one order and its reverse for a larger one.
into_iter(set) ==
    IF Cardinality(set) <= MaxShuffle THEN Perms(set)
    ELSE {SetToSeq(set), Reverse(SetToSeq(set))}

\* A fresh call of visit.
Frame(row, col) ==
    [row |-> row, col |-> col, pc |-> "enter", dir |-> 1,
     entry_visited |-> visited, entry_word |-> current_word]

Top == stack[Len(stack)]

\* The cells of the active calls, outermost first.
PathOf(st) == [i \in 1..Len(st) |-> <<st[i].row, st[i].col>>]

\* A search that never prunes.
prefix_ok_always(word) == TRUE

\* has_prefix(current_word), asked of the solver's trie.
prefix_ok(word) == has_prefix(SolverTrie, word)

Pop == SubSeq(stack, 1, Len(stack) - 1)

\* Solver::new, DICTIONARY.read().unwrap() on a sound lock.
SolverNewRead(b) ==
    /\ spc = "idle"
    /\ read_available
    /\ ~lock.poisoned
    /\ lock' = [lock EXCEPT !.readers = lock.readers + 1]
    /\ spc' = "new"
    /\ board' = b
    /\ UNCHANGED <<dictionary, lpc, lpath, word_trie, snapshot, start, stack,
                   visited, current_word, words, found, result>>

\* Solver::new, DICTIONARY.read().unwrap() on a poisoned lock: unwrap panics.
SolverNewPoisoned(b) ==
    /\ spc = "idle"
    /\ read_available
    /\ lock.poisoned
    /\ spc' = "poison_panic"
    /\ board' = b
    /\ UNCHANGED <<dictionary, lock, lpc, lpath, word_trie, snapshot, start,
                   stack, visited, current_word, words, found, result>>

\* Solver::new: the trie is cloned and the read guard dropped on return.
SolverNewClone ==
    /\ spc = "new"
    /\ word_trie' = clone(dictionary)
    /\ snapshot' = dictionary
    /\ lock' = [lock EXCEPT !.readers = lock.readers - 1]
    /\ spc' = "constructed"
    /\ UNCHANGED <<dictionary, lpc, lpath, board, start, stack, visited,
                   current_word, words, found, result>>

\* find_all_words on a board without rows: board[0] panics.
FindAllWordsPanic ==
    /\ spc = "constructed"
    /\ Len(board) = 0
    /\ spc' = "index_panic"
    /\ UNCHANGED <<dictionary, lock, lpc, lpath, board, word_trie, snapshot,
                   start, stack, visited, current_word, words, found, result>>

\* find_all_words: the locals before the loops.
FindAllWordsInit ==
    /\ spc = "constructed"
    /\ Len(board) > 0
    /\ words' = {}
    /\ found' = {}
    /\ visited' = [r \in 1..Len(board) |-> [c \in 1..Len(board[1]) |-> FALSE]]
    /\ current_word' = <<>>
    /\ start' = 0
    /\ stack' = <<>>
    /\ spc' = "searching"
    /\ UNCHANGED <<dictionary, lock, lpc, lpath, board, word_trie, snapshot,
                   result>>

\* The loops over row and col: the next call of visit.
StartVisit ==
    /\ spc = "searching"
    /\ stack = <<>>
    /\ start < Len(board) * Len(board[1])
    /\ stack' = <<Frame(start \div Len(board[1]), start % Len(board[1]))>>
    /\ start' = start + 1
    /\ UNCHANGED <<dictionary, lock, lpc, lpath, spc, board, word_trie,
                   snapshot, visited, current_word, words, found, result>>

\* visit: out of bounds or already on the path, return.
VisitReturn ==
    /\ spc = "searching"
    /\ stack # <<>>
    /\ Top.pc = "enter"
    /\ must_return(board, visited, Top.row, Top.col)
    /\ stack' = Pop
    /\ UNCHANGED <<dictionary, lock, lpc, lpath, spc, board, word_trie,
                   snapshot, start, visited, current_word, words, found, result>>

\* visit: the cell is marked and its token pushed; the word is a prefix,
\* it is recorded if it is a word, and the loop over DIRECTIONS begins.
VisitExtend ==
    /\ spc = "searching"
    /\ stack # <<>>
    /\ Top.pc = "enter"
    /\ ~must_return(board, visited, Top.row, Top.col)
    /\ LET word == current_word \o cell(board, Top.row, Top.col)
       IN  /\ prefix_ok(word)
           /\ visited' = set_visited(visited, Top.row, Top.col, TRUE)
           /\ current_word' = word
           /\ words' = IF is_word(SolverTrie, word) THEN words \cup {word} ELSE words
           /\ found' = IF is_word(SolverTrie, word)
                       THEN found \cup {[word |-> word, path |-> PathOf(stack)]}
                       ELSE found
    /\ stack' = [stack EXCEPT ![Len(stack)].pc = "loop"]
    /\ UNCHANGED <<dictionary, lock, lpc, lpath, spc, board, word_trie,
                   snapshot, start, result>>

\* visit: the cell is marked and its token pushed; the word is no prefix.
VisitPrune ==
    /\ spc = "searching"
    /\ stack # <<>>
    /\ Top.pc = "enter"
    /\ ~must_return(board, visited, Top.row, Top.col)
    /\ LET word == current_word \o cell(board, Top.row, Top.col)
       IN  /\ ~prefix_ok(word)
           /\ visited' = set_visited(visited, Top.row, Top.col, TRUE)
           /\ current_word' = word
    /\ stack' = [stack EXCEPT ![Len(stack)].pc = "exit"]
    /\ UNCHANGED <<dictionary, lock, lpc, lpath, spc, board, word_trie,
                   snapshot, start, words, found, result>>

\* The loop over DIRECTIONS: visit is called on the neighbour.
VisitRecurse ==
    /\ spc = "searching"
    /\ stack # <<>>
    /\ Top.pc = "loop"
    /\ Top.dir <= Len(DIRECTIONS)
    /\ LET new_row == Top.row + DIRECTIONS[Top.dir][1]
           new_col == Top.col + DIRECTIONS[Top.dir][2]
       IN  /\ may_recurse(new_row, new_col)
           /\ stack' = Append([stack EXCEPT ![Len(stack)].dir = Top.dir + 1],
                              Frame(new_row, new_col))
    /\ UNCHANGED <<dictionary, lock, lpc, lpath, spc, board, word_trie,
                   snapshot, start, visited, current_word, words, found, result>>

\* The loop over DIRECTIONS: a negative coordinate, no call.
VisitSkip ==
    /\ spc = "searching"
    /\ stack # <<>>
    /\ Top.pc = "loop"
    /\ Top.dir <= Len(DIRECTIONS)
    /\ LET new_row == Top.row + DIRECTIONS[Top.dir][1]
           new_col == Top.col + DIRECTIONS[Top.dir][2]
       IN  ~may_recurse(new_row, new_col)
    /\ stack' = [stack EXCEPT ![Len(stack)].dir = Top.dir + 1]
    /\ UNCHANGED <<dictionary, lock, lpc, lpath, spc, board, word_trie,
                   snapshot, start, visited, current_word, words, found, result>>

\* visit: the cell is unmarked, its token removed, and visit returns.
VisitExit ==
    /\ spc = "searching"
    /\ stack # <<>>
    /\ \/ Top.pc = "exit"
       \/ Top.pc = "loop" /\ Top.dir > Len(DIRECTIONS)
    /\ visited' = set_visited(visited, Top.row, Top.col, FALSE)
    /\ current_word' = truncate(current_word,
                          Len(current_word) - Len(cell(board, Top.row, Top.col)))
    /\ stack' = Pop
    /\ UNCHANGED <<dictionary, lock, lpc, lpath, spc, board, word_trie,
                   snapshot, start, words, found, result>>

\* find_all_words after the loops: filter, collect, sort, return.
FindAllWordsFinish ==
    /\ spc = "searching"
    /\ stack = <<>>
    /\ start = Len(board) * Len(board[1])
    /\ \E order \in into_iter(words) :
           result' = sort_by(SelectSeq(order, long_enough))
    /\ spc' = "done"
    /\ UNCHANGED <<dictionary, lock, lpc, lpath, board, word_trie, snapshot,
                   start, stack, visited, current_word, words, found>>

\* The caller of solve_words goes on, after a return or a panic; the
\* solver and the locals of the search are gone.
SolveDone ==
    /\ spc \in {"done", "index_panic", "poison_panic"}
    /\ spc' = "idle"
    /\ board' = <<>>
    /\ word_trie' = TrieNode_new
    /\ snapshot' = TrieNode_new
    /\ start' = 0
    /\ stack' = <<>>
    /\ visited' = <<>>
    /\ current_word' = <<>>
    /\ words' = {}
    /\ found' = {}
    /\ result' = <<>>
    /\ UNCHANGED <<dictionary, lock, lpc, lpath>>

----------------------------------------------------------------------------
(* The specifications. *)

NoSolver ==
    /\ spc = "idle"
    /\ board = <<>>
    /\ word_trie = TrieNode_new
    /\ snapshot = TrieNode_new
    /\ start = 0
    /\ stack = <<>>
    /\ visited = <<>>
    /\ current_word = <<>>
    /\ words = {}
    /\ found = {}
    /\ result = <<>>

NoLoader ==
    /\ lock = [writer |-> FALSE, readers |-> 0, poisoned |-> FALSE]
    /\ lpc = "idle"
    /\ lpath = "none"

\* The process at its start: DICTIONARY holds TrieNode::new().
Init ==
    /\ dictionary = TrieNode_new
    /\ NoLoader
    /\ NoSolver

Search ==
    \/ SolverNewClone
    \/ FindAllWordsPanic
    \/ FindAllWordsInit
    \/ StartVisit
    \/ VisitReturn
    \/ VisitExtend
    \/ VisitPrune
    \/ VisitRecurse
    \/ VisitSkip
    \/ VisitExit
    \/ FindAllWordsFinish
    \/ SolveDone

\* Loads and searches of one process, interleaved.
Next ==
    \/ \E path \in Paths : LoadAcquire(path)
    \/ \E path \in Paths : LoadAcquirePoisoned(path)
    \/ LoadMissing
    \/ LoadFatal
    \/ LoadInsert
    \/ LoadDone
    \/ \E b \in ConcurrentBoards : SolverNewRead(b)
    \/ \E b \in ConcurrentBoards : SolverNewPoisoned(b)
    \/ Search

Spec == Init /\ [][Next]_vars

\* The dictionaries left by loading some of the files.
LoadedDictionaries ==
    { TrieNode_new,
      load_text(TrieNode_new, Files["small"].contents),
      load_text(TrieNode_new, Files["more"].contents),
      load_text(load_text(TrieNode_new, Files["small"].contents),
                Files["more"].contents),
      load_text(TrieNode_new, Files["scrabble"].contents) }

\* The process once its loads are over.
InitSearch ==
    /\ dictionary \in LoadedDictionaries
    /\ NoLoader
    /\ NoSolver

\* Searches alone, against a dictionary that no longer changes.
NextSearch ==
    \/ \E b \in SearchBoards : SolverNewRead(b)
    \/ Search

SpecSearch == InitSearch /\ [][NextSearch]_vars

----------------------------------------------------------------------------
(* What the properties speak of, defined apart from the search. *)

Abs(x) == IF x < 0 THEN -x ELSE x

Min(x, y) == IF x < y THEN x ELSE y

\* The cells of a board, as <<row, col>> from 0.
Cells(b) ==
    IF Len(b) = 0 THEN {}
    ELSE {<<r, c>> : r \in 0..(Len(b) - 1), c \in 0..(Len(b[1]) - 1)}

NumCells(b) == Cardinality(Cells(b))

\* Two distinct cells that touch, diagonals included.
Adjacent(p, q) == p # q /\ Abs(p[1] - q[1]) <= 1 /\ Abs(p[2] - q[2]) <= 1

\* The token of cell p fits w from position i on.
Fits(b, w, i, p) ==
    LET tok == cell(b, p[1], p[2])
    IN  /\ i - 1 + Len(tok) <= Len(w)
        /\ SubSeq(w, i, i - 1 + Len(tok)) = tok

RECURSIVE TraceFrom(_, _, _, _, _)
\* w from position i on is spelled by a simple path that starts at cell p
\* and avoids the cells in used.
TraceFrom(b, w, i, p, used) ==
    /\ Fits(b, w, i, p)
    /\ LET j == i + Len(cell(b, p[1], p[2]))
       IN  \/ j > Len(w)
           \/ \E q \in Cells(b) \ (used \cup {p}) :
                  Adjacent(p, q) /\ TraceFrom(b, w, j, q, used \cup {p})

\* w is the concatenation of the tokens along some simple path of b.
Traceable(b, w) == \E p \in Cells(b) : TraceFrom(b, w, 1, p, {})

RECURSIVE WalkFrom(_, _, _, _, _)
\* As TraceFrom, but cells may be used again; fuel bounds the walk.
WalkFrom(b, w, i, p, fuel) ==
    /\ fuel > 0
    /\ Fits(b, w, i, p)
    /\ LET j == i + Len(cell(b, p[1], p[2]))
       IN  \/ j > Len(w)
           \/ \E q \in Cells(b) : Adjacent(p, q) /\ WalkFrom(b, w, j, q, fuel - 1)

\* w is spelled by some walk over touching cells, cells used again or not.
Walkable(b, w) == \E p \in Cells(b) : WalkFrom(b, w, 1, p, Len(w) + 1)

RECURSIVE Concat(_, _)
\* The tokens along a sequence of cells, concatenated.
Concat(b, path) ==
    IF path = <<>> THEN <<>>
    ELSE Concat(b, SubSeq(path, 1, Len(path) - 1))
             \o cell(b, path[Len(path)][1], path[Len(path)][2])

\* A sequence of cells of b, each touching the one before, none twice.
SimplePath(b, path) ==
    /\ \A i \in 1..Len(path) : path[i] \in Cells(b)
    /\ \A i \in 1..(Len(path) - 1) : Adjacent(path[i], path[i + 1])
    /\ \A i, j \in 1..Len(path) : i # j => path[i] # path[j]

\* The words of a trie, and the length of the longest.
WordsOf(t) == t.terminal

Longest(t) ==
    IF t.terminal = {} THEN 0
    ELSE CHOOSE n \in {Len(w) : w \in t.terminal} :
             \A w \in t.terminal : Len(w) <= n

\* a comes before b byte-wise.
LexLess(a, b) ==
    \E k \in 0..Min(Len(a), Len(b)) :
        /\ SubSeq(a, 1, k) = SubSeq(b, 1, k)
        /\ \/ k = Len(a) /\ k < Len(b)
           \/ k < Len(a) /\ k < Len(b) /\ a[k + 1] < b[k + 1]

\* The words a search of board b against trie t has to return.
Expected(b, t) == {w \in WordsOf(t) : Len(w) >= 3 /\ Traceable(b, w)}

SingleByteCells(b) == \A p \in Cells(b) : Len(cell(b, p[1], p[2])) = 1

NoEmptyCell(b) == \A p \in Cells(b) : Len(cell(b, p[1], p[2])) >= 1

TestWords ==
    { S(<<"e","a","r">>), S(<<"e","a","r","s">>), S(<<"t","a","r">>),
      S(<<"t","a","r","s">>), S(<<"t","e","a","r">>), S(<<"t","e","a","r","s">>),
      S(<<"t","o","p">>), S(<<"t","o","p","s">>) }

----------------------------------------------------------------------------
(* The properties. *)

\* C1: when find_all_words returns, every word of the solver's dictionary of
\* length 3 or more that is the concatenation of the tokens along a simple
\* path of touching cells is in the result; on the board of the test with the
\* eight words of the test loaded, all eight are in the result.
C1_Complete ==
    spc = "done" =>
        /\ \A w \in WordsOf(snapshot) :
               (Len(w) >= 3 /\ Traceable(board, w)) => w \in Range(result)
        /\ (board = TestBoard /\ TestWords \subseteq WordsOf(snapshot))
               => TestWords \subseteq Range(result)

\* The search of the test has returned its eight words.
C1_Witness ==
    /\ spc = "done"
    /\ board = TestBoard
    /\ TestWords \subseteq WordsOf(snapshot)
    /\ Range(result) = TestWords

\* C2: every returned word is a word of the solver's dictionary, and every
\* path it was recorded along is a sequence of cells of the board, each
\* touching the one before, none occurring twice, whose tokens spell it.
C2_Sound ==
    spc = "done" =>
        \A w \in Range(result) :
            /\ w \in WordsOf(snapshot)
            /\ \E f \in found : f.word = w
            /\ \A f \in found :
                   f.word = w => SimplePath(board, f.path) /\ Concat(board, f.path) = w

\* A search has returned although the dictionary holds a word that only a
\* walk using a cell twice spells on the board.
C2_Witness ==
    /\ spc = "done"
    /\ result # <<>>
    /\ \E w \in WordsOf(snapshot) :
           Len(w) >= 3 /\ Walkable(board, w) /\ ~Traceable(board, w)

\* C3 as stated: every returned word was found along a path of at least
\* three cells.
C3_ThreeTokens ==
    spc = "done" =>
        \A w \in Range(result) : \E f \in found : f.word = w /\ Len(f.path) >= 3

\* C3: no returned word is shorter than three bytes; on a board whose cells
\* hold one byte each, no returned word was found along fewer than three cells.
C3_ThreeBytes ==
    spc = "done" =>
        \A w \in Range(result) :
            /\ Len(w) >= 3
            /\ SingleByteCells(board) =>
                   \A f \in found : f.word = w => Len(f.path) >= 3

\* A search has returned after finding a word shorter than three bytes,
\* which the result leaves out.
C3_Witness ==
    /\ spc = "done"
    /\ \E w \in words : Len(w) < 3 /\ w \notin Range(result)

\* C4: of two consecutive entries of the result, the first is longer, or as
\* long and byte-wise before the second.
C4_Ordered ==
    spc = "done" =>
        \A i \in 1..(Len(result) - 1) :
            \/ Len(result[i]) > Len(result[i + 1])
            \/ Len(result[i]) = Len(result[i + 1]) /\ LexLess(result[i], result[i + 1])

\* A result with words of two lengths and two words of one length, one of
\* its words having been found along two paths.
C4_Witness ==
    /\ spc = "done"
    /\ \E i, j \in 1..(Len(result) - 1) :
           /\ Len(result[i]) > Len(result[i + 1])
           /\ Len(result[j]) = Len(result[j + 1])
    /\ \E f, g \in found : f.word = g.word /\ f.path # g.path /\ Len(f.word) >= 3

\* C5: once Solver::new has returned the solver holds no lock, and the
\* result of the search is the one the dictionary at the instant of the
\* clone calls for, whatever was loaded since.
C5_Isolated ==
    /\ spc \in {"constructed", "searching", "done", "index_panic"} => lock.readers = 0
    /\ spc = "done" => Range(result) = Expected(board, snapshot)

\* A search has returned while the dictionary holds a word, loaded after the
\* clone, that the board spells.
C5_Witness ==
    /\ spc = "done"
    /\ \E w \in WordsOf(dictionary) \ WordsOf(snapshot) :
           Len(w) >= 3 /\ Traceable(board, w)

\* C6 as stated: solve_words on the board without rows returns, and returns
\* an empty result.
C6_EmptyBoardEmptyResult ==
    (spc \in {"done", "index_panic"} /\ board = EmptyBoard)
        => (spc = "done" /\ result = <<>>)

\* C7 as stated: a load of a text adds to the words of the dictionary the
\* lowercased lines that are not empty, and nothing else.
C7_NonEmptyLines ==
    [][(lpc = "locked" /\ lpc' = "returned" /\ Files[lpath].kind = "text")
          => WordsOf(dictionary') =
                 WordsOf(dictionary) \cup
                     {to_lowercase(l) : l \in {x \in Range(lines(Files[lpath].contents)) :
                                                  x # <<>>}}]_vars

\* The active calls that have passed their test and marked their cell.
Marked == {i \in 1..Len(stack) : stack[i].pc # "enter"}

\* C8, the state: during the search the visited matrix marks the cells of the
\* calls that have passed their test, and no others; current_word is the
\* concatenation of their tokens in order; between two top-level calls the
\* matrix is all false and the word empty.
C8_PathState ==
    spc = "searching" =>
        /\ \A i \in 1..Len(stack) : i \notin Marked => i = Len(stack)
        /\ \A p \in Cells(board) :
               is_visited(visited, p[1], p[2])
                   <=> \E i \in Marked : <<stack[i].row, stack[i].col>> = p
        /\ current_word = Concat(board, SubSeq(PathOf(stack), 1, Cardinality(Marked)))
        /\ stack = <<>> =>
               /\ \A p \in Cells(board) : ~is_visited(visited, p[1], p[2])
               /\ current_word = <<>>

\* C8: the state above always holds, and every call of visit returns with
\* visited and current_word as they were when it was called.
C8_Restored ==
    /\ []C8_PathState
    /\ [][(spc = "searching" /\ Len(stack') < Len(stack))
             => /\ visited' = Top.entry_visited
                /\ current_word' = Top.entry_word]_vars

\* A nested call that was pruned on a cell of several bytes is about to return.
C8_Witness ==
    /\ spc = "searching"
    /\ Len(stack) >= 2
    /\ Top.pc = "exit"
    /\ Len(cell(board, Top.row, Top.col)) >= 2

\* C9 as stated: the active calls of visit are never more than the cells of
\* the board, nor more than the bytes of the longest word.
C9_MinCellsLongest ==
    spc = "searching" => Len(stack) <= Min(NumCells(board), Longest(word_trie))

\* C9: the active calls of visit are never more than the cells of the board
\* plus one; on a board without an empty cell they are never more than
\* min(cells, bytes of the longest word) + 1.
C9_DepthBound ==
    spc = "searching" =>
        /\ Len(stack) <= NumCells(board) + 1
        /\ NoEmptyCell(board) =>
               Len(stack) <= Min(NumCells(board), Longest(word_trie)) + 1

\* The bound is met on a board with more cells than the longest word has
\* bytes: a longest word is on the path and visit is called once more.
C9_Witness ==
    /\ spc = "searching"
    /\ NoEmptyCell(board)
    /\ Longest(word_trie) >= 3
    /\ NumCells(board) > Longest(word_trie)
    /\ Len(stack) = Longest(word_trie) + 1

\* C10: a load that fails on reading inserts nothing and leaves the lock
\* poisoned; once the lock is poisoned it stays so, the dictionary no longer
\* changes, and every call of load_dictionary or Solver::new made from then on
\* panics instead of taking the lock.
C10_PoisonedForGood ==
    [][/\ (lpc = "locked" /\ Files[lpath].kind = "unreadable" /\ lpc' # "locked")
           => (dictionary' = dictionary /\ lock'.poisoned /\ lpc' = "read_panic")
       /\ lock.poisoned =>
              /\ lock'.poisoned
              /\ dictionary' = dictionary
              /\ lpc' # "locked"
              /\ spc' # "new"
              /\ (lpc = "idle" /\ lpc' # "idle") => lpc' = "poison_panic"
              /\ (spc = "idle" /\ spc' # "idle") => spc' = "poison_panic"]_vars

\* After a failed read, a later load and a later solve have both panicked.
C10_Witness ==
    /\ lock.poisoned
    /\ lpc = "poison_panic"
    /\ spc = "poison_panic"

====
